---- MODULE Spec2Model ----
(***************************************************************************)
(* Model of the auth-guardrails policy decision engine:                    *)
(*   hooks/pre_tool_use_guard.py  (PreToolUse arbitration)                 *)
(*   bin/auth_assurance.py        (verification executor, evidence writer) *)
(*   hooks/stop_orchestrator.py   (Stop hook, automatic runs, debounce)    *)
(* Strings are sequences of one-character strings, so that globbing,       *)
(* path parsing, sorting and fingerprinting are computed, not assumed.     *)
(***************************************************************************)
EXTENDS Integers, Sequences, FiniteSets, TLC

\* now:       the clock, in whole seconds
\* repo:      what "git diff --name-only base...HEAD" answers in the repository
\* stateFile: the evidence state file (last_run.json) the hook reads and the
\*            executor writes
\* hook:      the arbitration call in progress, with its inputs and its output
\* run:       the executor run that has just ended, with its arguments, its
\*            exit status, the profiles it started the runner for and the
\*            state file as it found it
\* stop:      the Stop hook call in progress, with its inputs and whether it
\*            started the executor
\* lastLaunch: when the Stop hook last started the executor, and for which
\*            fingerprint (history, kept for the debounce claim)
VARIABLES now, repo, stateFile, hook, run, stop, lastLaunch

vars == <<now, repo, stateFile, hook, run, stop, lastLaunch>>

(* ------------------------------ bounds -------------------------------- *)

\* The clock runs over 0..MaxNow (whole seconds, as int(time.time())).
MaxNow == 1

(* --------------------------- string helpers --------------------------- *)

\* Python's None, where a string is expected.
None == "<None>"

\* Code points of the characters the model uses (order of sorted()).
Code(c) ==
    CASE c = "\n" -> 10
      [] c = " "  -> 32
      [] c = "*"  -> 42
      [] c = "."  -> 46
      [] c = "/"  -> 47
      [] c = "?"  -> 63
      [] c = "\\" -> 92
      [] c = "a"  -> 97
      [] c = "c"  -> 99
      [] c = "e"  -> 101
      [] c = "k"  -> 107
      [] c = "l"  -> 108
      [] c = "m"  -> 109
      [] c = "p"  -> 112
      [] c = "r"  -> 114
      [] c = "s"  -> 115
      [] c = "x"  -> 120
      [] OTHER    -> 122

\* str.replace("\\", "/")
_posix(path) == [i \in 1..Len(path) |-> IF path[i] = "\\" THEN "/" ELSE path[i]]

RECURSIVE LStrip(_)
LStrip(s) == IF s # <<>> /\ Head(s) \in {" ", "\n"} THEN LStrip(Tail(s)) ELSE s

RECURSIVE RStrip(_)
RStrip(s) ==
    IF s # <<>> /\ s[Len(s)] \in {" ", "\n"}
    THEN RStrip(SubSeq(s, 1, Len(s) - 1))
    ELSE s

\* str.strip()
Strip(s) == RStrip(LStrip(s))

\* fnmatch.fnmatchcase(name, pat): "*" matches any run of characters
\* (including "/"), "?" one character, anything else itself; the match is
\* anchored at both ends and case-sensitive.
RECURSIVE fnmatchcase(_, _)
fnmatchcase(name, pat) ==
    IF pat = <<>> THEN name = <<>>
    ELSE IF Head(pat) = "*"
         THEN fnmatchcase(name, Tail(pat))
              \/ (name # <<>> /\ fnmatchcase(Tail(name), pat))
         ELSE /\ name # <<>>
              /\ (Head(pat) = "?" \/ Head(pat) = Head(name))
              /\ fnmatchcase(Tail(name), Tail(pat))

\* str.split("/")
RECURSIVE SplitSlash(_, _)
SplitSlash(s, cur) ==
    IF s = <<>> THEN <<cur>>
    ELSE IF Head(s) = "/" THEN <<cur>> \o SplitSlash(Tail(s), <<>>)
         ELSE SplitSlash(Tail(s), Append(cur, Head(s)))

RECURSIVE DropEmptyAndDot(_)
DropEmptyAndDot(parts) ==
    IF parts = <<>> THEN <<>>
    ELSE IF Head(parts) \in {<<>>, <<".">>}
         THEN DropEmptyAndDot(Tail(parts))
         ELSE <<Head(parts)>> \o DropEmptyAndDot(Tail(parts))

\* PurePosixPath(s).parts: the root "/" is a part of its own, empty and "."
\* segments are dropped.
PathParts(s) ==
    LET segs == DropEmptyAndDot(SplitSlash(s, <<>>))
    IN  IF s # <<>> /\ Head(s) = "/" THEN <<<<"/">>>> \o segs ELSE segs

HasRoot(s) == s # <<>> /\ Head(s) = "/"

\* zip(reversed(parts), reversed(pat_parts)) with fnmatchcase on each pair
RECURSIVE PartsMatchFromRight(_, _)
PartsMatchFromRight(parts, pats) ==
    IF parts = <<>> \/ pats = <<>> THEN TRUE
    ELSE /\ fnmatchcase(parts[Len(parts)], pats[Len(pats)])
         /\ PartsMatchFromRight(SubSeq(parts, 1, Len(parts) - 1),
                                SubSeq(pats, 1, Len(pats) - 1))

\* PurePosixPath.match raises ValueError("empty pattern")
PathMatchRaises(pat) == PathParts(pat) = <<>>

\* PurePosixPath(path).match(pat), for a pattern that does not raise
PurePathMatch(path, pat) ==
    LET parts == PathParts(path)
        pats  == PathParts(pat)
    IN  IF HasRoot(pat)
        THEN /\ HasRoot(path)
             /\ Len(pats) = Len(parts)
             /\ PartsMatchFromRight(parts, Tail(pats))
        ELSE /\ Len(pats) <= Len(parts)
             /\ PartsMatchFromRight(parts, pats)

\* _match_any of the PreToolUse hook: glob match, fnmatch fallback when the
\* glob engine rejects the pattern.
RECURSIVE _match_any(_, _)
_match_any(path, patterns) ==
    IF patterns = <<>> THEN FALSE
    ELSE LET pat == Head(patterns)
         IN  \/ IF PathMatchRaises(pat)
                THEN fnmatchcase(_posix(path), pat)
                ELSE PurePathMatch(_posix(path), pat)
             \/ _match_any(path, Tail(patterns))

(* ---------------------- change set and fingerprint --------------------- *)

\* s < t in Python's string order
RECURSIVE StrLess(_, _)
StrLess(s, t) ==
    IF t = <<>> THEN FALSE
    ELSE IF s = <<>> THEN TRUE
    ELSE IF Code(Head(s)) # Code(Head(t)) THEN Code(Head(s)) < Code(Head(t))
    ELSE StrLess(Tail(s), Tail(t))

RECURSIVE Insert(_, _)
Insert(x, sortedSeq) ==
    IF sortedSeq = <<>> THEN <<x>>
    ELSE IF StrLess(Head(sortedSeq), x)
         THEN <<Head(sortedSeq)>> \o Insert(x, Tail(sortedSeq))
         ELSE <<x>> \o sortedSeq

\* sorted(files)
RECURSIVE Sorted(_)
Sorted(files) == IF files = <<>> THEN <<>> ELSE Insert(Head(files), Sorted(Tail(files)))

\* _fingerprint: every path followed by "\n" is fed to the digest; the
\* digest is modelled by the byte string it is fed (collision-free).
RECURSIVE _fingerprint(_)
_fingerprint(files) ==
    IF files = <<>> THEN <<>>
    ELSE Head(files) \o <<"\n">> \o _fingerprint(Tail(files))

(* ------------------------------ dicts --------------------------------- *)

\* A JSON object is a function on its keys; {} is the empty function.
EmptyDict == <<>>

\* d.get(k, default)
Get(d, k, default) == IF k \in DOMAIN d THEN d[k] ELSE default

\* Python truthiness of a dict, and of a string
TruthyDict(d) == DOMAIN d # {}
TruthyStr(s) == s # "" /\ s # None

\* The top-level keys of the configuration whose values are mappings.
DictKeys == {"bash", "paths", "evidence", "runner", "profiles"}

\* _merge_dict: override wins; where both values are mappings they are
\* merged one level deep (dict.update), anything else is replaced.
_merge_dict(base, override) ==
    [k \in DOMAIN base \cup DOMAIN override |->
        IF k \notin DOMAIN override THEN base[k]
        ELSE IF k \in DOMAIN base /\ k \in DictKeys
             THEN [j \in DOMAIN base[k] \cup DOMAIN override[k] |->
                      IF j \in DOMAIN override[k] THEN override[k][j] ELSE base[k][j]]
             ELSE override[k]]

\* A file on disk: absent, present but not valid JSON, or a JSON object.
AbsentFile == [exists |-> FALSE, ok |-> FALSE, json |-> EmptyDict]
MalformedFile == [exists |-> TRUE, ok |-> FALSE, json |-> EmptyDict]
JsonFile(d) == [exists |-> TRUE, ok |-> TRUE, json |-> d]

\* neither profiles.local.json nor the overrides directory has a profiles file
NoProfileOverrides == <<AbsentFile, AbsentFile>>

\* the loop over override_candidates: a broken override is skipped
RECURSIVE ApplyOverrides(_, _)
ApplyOverrides(policy, candidates) ==
    IF candidates = <<>> THEN policy
    ELSE LET p == Head(candidates)
         IN  ApplyOverrides(
                IF p.exists /\ p.ok THEN _merge_dict(policy, p.json) ELSE policy,
                Tail(candidates))

\* mutant: profiles.json is optional, only the policy file is required
_load_config_ProfilesOptional(cfg) ==
    IF ~cfg.policy.exists
    THEN [profiles |-> EmptyDict, policy |-> EmptyDict]
    ELSE [profiles |-> IF cfg.profiles.exists THEN cfg.profiles.json
                       ELSE [base_branch |-> "origin/develop"],
          policy   |-> ApplyOverrides(cfg.policy.json, cfg.overrides)]

\* _load_config: ({}, {}) when either base file is missing
_load_config(cfg) ==
    IF ~cfg.profiles.exists \/ ~cfg.policy.exists
    THEN [profiles |-> EmptyDict, policy |-> EmptyDict]
    ELSE [profiles |-> cfg.profiles.json,
          policy   |-> ApplyOverrides(cfg.policy.json, cfg.overrides)]

\* _policy_lists(policy, k1, k2): the list at policy[k1][k2], else []
_policy_lists(policy, k1, k2) == Get(Get(policy, k1, EmptyDict), k2, <<>>)

\* _bash_patterns(policy, bucket)
_bash_patterns(policy, bucket) == Get(Get(policy, "bash", EmptyDict), bucket, <<>>)

\* _match_bash: the reason of the first rule whose pattern is non-empty and
\* matches; None when no rule matches.
RECURSIVE _match_bash(_, _)
_match_bash(cmd, patterns) ==
    IF patterns = <<>> THEN None
    ELSE LET p   == Head(patterns)
             pat == Get(p, "pattern", <<>>)
         IN  IF pat # <<>> /\ fnmatchcase(cmd, pat)
             THEN Get(p, "reason", "matched security policy")
             ELSE _match_bash(cmd, Tail(patterns))

(* --------------------------- evidence record --------------------------- *)

\* exit code assumed when the record has none (state.get("exit_code", 999))
MissingExitCode == 999

\* evidence.max_age_seconds when the policy does not set it
DefaultMaxAge == 3600

\* the profile whose pass lifts the deny on require-success paths
DesignatedProfile == "authn-gateway"

\* a diff_fingerprint that equals no fingerprint (state.get(...) is None)
NoFingerprint == <<None>>

NoState == [isNone |-> TRUE, value |-> EmptyDict]

\* _read_state: None for a missing or unparsable file
_read_state(f) ==
    IF ~f.exists THEN NoState
    ELSE IF f.ok THEN [isNone |-> FALSE, value |-> f.json]
    ELSE NoState

\* "if state:" - neither None nor {}
TruthyState(state) == ~state.isNone /\ TruthyDict(state.value)

(* The text of the state file, as the tokens of json.dumps(state, indent=2): *)
(* the opening brace, one token for a key with a scalar or list value, one *)
(* for a key that opens a nested object, a closing brace.                  *)
OpenToken == [t |-> "open", key |-> "", value |-> 0]
CloseToken == [t |-> "close", key |-> "", value |-> 0]
MemberToken(k, v) == [t |-> "member", key |-> k, value |-> v]
NestedToken(k) == [t |-> "nested", key |-> k, value |-> 0]

\* the members of a mapping with the keys in the order given
RECURSIVE MemberTokens(_, _)
MemberTokens(d, keys) ==
    IF keys = <<>> THEN <<>>
    ELSE (IF Head(keys) \in DOMAIN d
          THEN <<MemberToken(Head(keys), d[Head(keys)])>> ELSE <<>>)
         \o MemberTokens(d, Tail(keys))

\* json.dumps of the record cmd_run writes (lines 268-281), keys in the
\* order of the dict literal; profile_exit_codes in the order of execution
json_dumps(state) ==
    <<OpenToken,
      MemberToken("timestamp", state.timestamp),
      MemberToken("diff_fingerprint", state.diff_fingerprint),
      MemberToken("profiles", state.profiles),
      MemberToken("exit_code", state.exit_code),
      NestedToken("profile_exit_codes")>>
    \o MemberTokens(state.profile_exit_codes, state.profiles)
    \o <<CloseToken, MemberToken("status", state.status), CloseToken>>

\* nesting depth after the first k tokens
RECURSIVE Depth(_, _)
Depth(text, k) ==
    IF k = 0 THEN 0
    ELSE Depth(text, k - 1)
         + (IF text[k].t \in {"open", "nested"} THEN 1
            ELSE IF text[k].t = "close" THEN -1 ELSE 0)

\* the mapping the tokens spell: the members at depth 1, a nested object
\* holding the members that follow its key up to its closing brace
Members1(text) ==
    { i \in 1..Len(text) : text[i].t \in {"member", "nested"} /\ Depth(text, i - 1) = 1 }
NestedEnd(text, i) ==
    LET after == { j \in (i + 1)..Len(text) : Depth(text, j) = 1 }
    IN  IF after = {} THEN Len(text) + 1
        ELSE CHOOSE j \in after : \A j2 \in after : j <= j2
NestedValue(text, i) ==
    LET inside == { j \in (i + 1)..(NestedEnd(text, i) - 1) : text[j].t = "member" }
    IN  [k \in { text[j].key : j \in inside } |->
            text[CHOOSE j \in inside : text[j].key = k].value]
ObjectValue(text) ==
    [k \in { text[i].key : i \in Members1(text) } |->
        LET i == CHOOSE i \in Members1(text) : text[i].key = k
        IN  IF text[i].t = "nested" THEN NestedValue(text, i) ELSE text[i].value]

\* mutant: a text cut short is read as the object of the members it holds
json_loads_Lenient(text) ==
    IF Len(text) >= 2 /\ text[1].t = "open"
    THEN [ok |-> TRUE, value |-> ObjectValue(text)]
    ELSE [ok |-> FALSE, value |-> EmptyDict]

\* json.loads (line 187): the object when the text is one complete object,
\* an exception otherwise (an empty text, a text that stops before the
\* closing brace of the object)
json_loads(text) ==
    IF /\ Len(text) >= 2 /\ text[1].t = "open"
       /\ Depth(text, Len(text)) = 0
       /\ \A k \in 1..(Len(text) - 1) : Depth(text, k) >= 1
    THEN [ok |-> TRUE, value |-> ObjectValue(text)]
    ELSE [ok |-> FALSE, value |-> EmptyDict]

\* the state file when it holds the text: the file as _read_state finds it
FileOfText(text) ==
    [exists |-> TRUE, ok |-> json_loads(text).ok, json |-> json_loads(text).value]

\* mutant: the boundary is exclusive
Fresh_Exclusive(t, ts, max_age) == (t - ts) < max_age

\* fresh = (_now_ts() - ts) <= max_age
Fresh(t, ts, max_age) == (t - ts) <= max_age

\* mutant: the fingerprint is not compared
OkFp_Ignored(st, fp) == TRUE

\* ok_fp = state.get("diff_fingerprint") == fp
OkFp(st, fp) == Get(st, "diff_fingerprint", NoFingerprint) = fp

\* mutant: any recorded run counts, a tooling error too
RanFreshForDiff_AnyExit(ok_fp, fresh, exit_code) == ok_fp /\ fresh

\* ran_fresh_for_diff: a run for this diff, recent, that passed or failed
RanFreshForDiff(ok_fp, fresh, exit_code) == ok_fp /\ fresh /\ exit_code \in {0, 1}

\* mutant: a record without an entry for the profile counts as a pass
AuthnGatewayRc_DefaultPass(codes) == Get(codes, DesignatedProfile, 0)

\* authn_gateway_rc = int(profile_exit_codes.get("authn-gateway", 999))
AuthnGatewayRc(codes) == Get(codes, DesignatedProfile, MissingExitCode)

\* mutant: without a record every evidence test passes
EvidenceFlags_FailOpen(state, fp, max_age, t) ==
    IF ~TruthyState(state)
    THEN [evidence_pass |-> TRUE, ran_fresh_for_diff |-> TRUE,
          authn_gateway_pass |-> TRUE, profile_exit_codes |-> EmptyDict]
    ELSE LET st        == state.value
             ts        == Get(st, "timestamp", 0)
             exit_code == Get(st, "exit_code", MissingExitCode)
             ok_fp     == OkFp(st, fp)
             fresh     == Fresh(t, ts, max_age)
             codes     == Get(st, "profile_exit_codes", EmptyDict)
         IN  [evidence_pass      |-> ok_fp /\ fresh /\ exit_code = 0,
              ran_fresh_for_diff |-> RanFreshForDiff(ok_fp, fresh, exit_code),
              authn_gateway_pass |-> ok_fp /\ fresh /\ AuthnGatewayRc(codes) = 0,
              profile_exit_codes |-> codes]

\* The three evidence flags computed by main from the state record
\* (lines 262-284).
EvidenceFlags(state, fp, max_age, t) ==
    IF ~TruthyState(state)
    THEN [evidence_pass |-> FALSE, ran_fresh_for_diff |-> FALSE,
          authn_gateway_pass |-> FALSE, profile_exit_codes |-> EmptyDict]
    ELSE LET st        == state.value
             ts        == Get(st, "timestamp", 0)
             exit_code == Get(st, "exit_code", MissingExitCode)
             ok_fp     == OkFp(st, fp)
             fresh     == Fresh(t, ts, max_age)
             codes     == Get(st, "profile_exit_codes", EmptyDict)
         IN  [evidence_pass      |-> ok_fp /\ fresh /\ exit_code = 0,
              ran_fresh_for_diff |-> RanFreshForDiff(ok_fp, fresh, exit_code),
              authn_gateway_pass |-> ok_fp /\ fresh /\ AuthnGatewayRc(codes) = 0,
              profile_exit_codes |-> codes]

(* ------------------------- the PreToolUse hook ------------------------- *)

\* What one run of the hook process has produced so far: the verdicts written
\* to stdout, the audit events handed to the sink, the order in which both
\* were produced, and whether the process has exited.
StartProcess(sinkOk) ==
    [out |-> <<>>, log |-> <<>>, written |-> <<>>, order |-> <<>>,
     exited |-> FALSE, sinkOk |-> sinkOk]

\* _write_stdout of one verdict; a process that has ended writes nothing
Emit(ps, decision, reason) ==
    IF ps.exited THEN ps
    ELSE [ps EXCEPT !.out = Append(@, [decision |-> decision, reason |-> reason]),
                    !.order = Append(@, "verdict")]

\* raise SystemExit(0)
Exit(ps) == [ps EXCEPT !.exited = TRUE]

\* allow / ask / deny write one verdict and raise SystemExit(0)
allow(ps) == Exit(Emit(ps, "allow", <<>>))

\* mutant: ask writes its verdict and returns to the caller
ask_Returns(ps, reason) == Emit(ps, "ask", reason)

ask(ps, reason) == Exit(Emit(ps, "ask", reason))

deny(ps, reason) == Exit(Emit(ps, "deny", reason))

\* mutant: a failure of the audit sink is not caught and ends the process
_log_security_event_Raises(ps, event) ==
    IF ps.sinkOk
    THEN [ps EXCEPT !.log = Append(@, event), !.order = Append(@, "audit"),
                    !.written = Append(@, event)]
    ELSE [ps EXCEPT !.log = Append(@, event), !.order = Append(@, "audit"),
                    !.exited = TRUE]

\* _log_security_event: one audit event handed to the sink, which writes it
\* to a file of its own unless the directory or the file cannot be written;
\* the failure is swallowed.
_log_security_event(ps, event) ==
    [ps EXCEPT !.log = Append(@, event), !.order = Append(@, "audit"),
               !.written = IF ps.sinkOk THEN Append(@, event) ELSE @]

AuditEvent(tool, decision, reason, subject) ==
    [tool |-> tool, decision |-> decision, reason |-> reason, subject |-> subject]

\* tool_input is a JSON string, a JSON object, or some other JSON value
StrInput(s) == [kind |-> "str", str |-> s, dict |-> EmptyDict]
DictInput(d) == [kind |-> "dict", str |-> <<>>, dict |-> d]
OtherInput == [kind |-> "other", str |-> <<>>, dict |-> EmptyDict]

\* the command of a Bash action (lines 288-293)
BashCommand(tool_input) ==
    Strip(IF tool_input.kind = "str" THEN tool_input.str
          ELSE IF tool_input.kind = "dict" THEN Get(tool_input.dict, "command", <<>>)
          ELSE <<>>)

\* the path of a file action (lines 321-324)
FilePath(tool_input) ==
    _posix(IF tool_input.kind = "dict"
           THEN Get(tool_input.dict, "file_path", Get(tool_input.dict, "path", <<>>))
           ELSE <<>>)

\* Each step of main is an operator on the process so far; a step that finds
\* the process exited (SystemExit raised) does nothing.

\* lines 313-318: allow a Bash command that matched nothing
BashAllow(ps, cmd) ==
    IF ps.exited THEN ps
    ELSE allow(_log_security_event(ps, AuditEvent("Bash", "allow", None, cmd)))

\* lines 304-311: ask when a confirm rule matches
BashConfirm(ps, policy, cmd) ==
    LET reason == _match_bash(cmd, _bash_patterns(policy, "confirm"))
    IN  IF ps.exited THEN ps
        ELSE IF TruthyStr(reason)
        THEN ask(_log_security_event(ps, AuditEvent("Bash", "ask", reason, cmd)),
                 <<"High-risk command", reason>>)
        ELSE ps

\* lines 295-302: deny when a blocked rule matches
BashBlocked(ps, policy, cmd) ==
    LET reason == _match_bash(cmd, _bash_patterns(policy, "blocked"))
    IN  IF ps.exited THEN ps
        ELSE IF TruthyStr(reason)
        THEN deny(_log_security_event(ps, AuditEvent("Bash", "block", reason, cmd)),
                  <<"Blocked command", reason>>)
        ELSE ps

\* main, lines 287-318: the Bash branch
HandleBash(ps, policy, tool_input) ==
    BashAllow(
        BashConfirm(
            BashBlocked(ps, policy, BashCommand(tool_input)),
            policy, BashCommand(tool_input)),
        BashCommand(tool_input))

\* mutant: zeroAccess guards writes only
FileZeroAccess_WritesOnly(ps, policy, tool_name, file_path) ==
    IF ps.exited THEN ps
    ELSE IF /\ tool_name \in {"Edit", "Write"}
            /\ _match_any(file_path, _policy_lists(policy, "paths", "zeroAccess"))
    THEN deny(_log_security_event(ps,
                 AuditEvent(tool_name, "block", "zeroAccess", file_path)),
              <<"Blocked access to sensitive path">>)
    ELSE ps

\* lines 327-332: absolute deny for zeroAccess paths
FileZeroAccess(ps, policy, tool_name, file_path) ==
    IF ps.exited THEN ps
    ELSE IF _match_any(file_path, _policy_lists(policy, "paths", "zeroAccess"))
    THEN deny(_log_security_event(ps,
                 AuditEvent(tool_name, "block", "zeroAccess", file_path)),
              <<"Blocked access to sensitive path">>)
    ELSE ps

\* mutant: the deny is lifted by a pass of the whole run, not of the profile
FileRequireSuccess_WholeRun(ps, policy, tool_name, file_path, ev) ==
    IF ps.exited THEN ps
    ELSE IF /\ _match_any(file_path,
                  _policy_lists(policy, "evidence", "require_success_for_paths"))
            /\ ~ev.evidence_pass
    THEN deny(_log_security_event(ps,
                 AuditEvent(tool_name, "block", "authn_gateway_not_pass", file_path)),
              <<"Auth policy edit requires authn-gateway profile to PASS">>)
    ELSE ps

\* lines 338-349: deny unless the designated profile passed for this diff
FileRequireSuccess(ps, policy, tool_name, file_path, ev) ==
    IF ps.exited THEN ps
    ELSE IF /\ _match_any(file_path,
                  _policy_lists(policy, "evidence", "require_success_for_paths"))
            /\ ~ev.authn_gateway_pass
    THEN deny(_log_security_event(ps,
                 AuditEvent(tool_name, "block", "authn_gateway_not_pass", file_path)),
              <<"Auth policy edit requires authn-gateway profile to PASS">>)
    ELSE ps

\* lines 352-362: ask unless a run happened for this diff recently
FileRequireConfirm(ps, policy, tool_name, file_path, ev) ==
    IF ps.exited THEN ps
    ELSE IF /\ _match_any(file_path,
                  _policy_lists(policy, "evidence",
                                "require_confirm_without_evidence_for_paths"))
            /\ ~ev.ran_fresh_for_diff
    THEN ask(_log_security_event(ps,
                AuditEvent(tool_name, "ask", "no_fresh_evidence", file_path)),
             <<"Auth surface change detected">>)
    ELSE ps

\* mutant: the confirmWrite check applies to Read as well
FileConfirmWrite_AnyTool(ps, policy, tool_name, file_path, ev) ==
    IF ps.exited THEN ps
    ELSE IF /\ _match_any(file_path, _policy_lists(policy, "paths", "confirmWrite"))
            /\ ~ev.ran_fresh_for_diff
    THEN ask(_log_security_event(ps,
                AuditEvent(tool_name, "ask", "confirmWrite", file_path)),
             <<"Editing sensitive path">>)
    ELSE ps

\* lines 365-370: ask on Edit / Write of a confirmWrite path without evidence
FileConfirmWrite(ps, policy, tool_name, file_path, ev) ==
    IF ps.exited THEN ps
    ELSE IF /\ tool_name \in {"Edit", "Write"}
            /\ _match_any(file_path, _policy_lists(policy, "paths", "confirmWrite"))
            /\ ~ev.ran_fresh_for_diff
    THEN ask(_log_security_event(ps,
                AuditEvent(tool_name, "ask", "confirmWrite", file_path)),
             <<"Editing sensitive path">>)
    ELSE ps

\* lines 372-376: allow
FileAllow(ps, tool_name, file_path) ==
    IF ps.exited THEN ps
    ELSE allow(_log_security_event(ps, AuditEvent(tool_name, "allow", None, file_path)))

\* mutant: the require-confirm check runs before the require-success check
HandleFile_ConfirmFirst(ps, policy, tool_name, tool_input, ev) ==
    FileAllow(
        FileConfirmWrite(
            FileRequireSuccess(
                FileRequireConfirm(
                    FileZeroAccess(ps, policy, tool_name, FilePath(tool_input)),
                    policy, tool_name, FilePath(tool_input), ev),
                policy, tool_name, FilePath(tool_input), ev),
            policy, tool_name, FilePath(tool_input), ev),
        tool_name, FilePath(tool_input))

\* main, lines 320-376: the Read / Write / Edit branch
HandleFile(ps, policy, tool_name, tool_input, ev) ==
    FileAllow(
        FileConfirmWrite(
            FileRequireConfirm(
                FileRequireSuccess(
                    FileZeroAccess(ps, policy, tool_name, FilePath(tool_input)),
                    policy, tool_name, FilePath(tool_input), ev),
                policy, tool_name, FilePath(tool_input), ev),
            policy, tool_name, FilePath(tool_input), ev),
        tool_name, FilePath(tool_input))

\* [l.strip() for l in out.splitlines() if l.strip()]
RECURSIVE StripLines(_)
StripLines(lines) ==
    IF lines = <<>> THEN <<>>
    ELSE IF Strip(Head(lines)) = <<>> THEN StripLines(Tail(lines))
    ELSE <<Strip(Head(lines))>> \o StripLines(Tail(lines))

\* mutant: the changed files are taken in the order git prints them
_git_diff_files_Unsorted(r) == IF r.gitOk THEN StripLines(r.lines) ELSE <<>>

\* _git_diff_files of the hook: the sorted changed paths, [] when git fails
_git_diff_files(r) == IF r.gitOk THEN Sorted(StripLines(r.lines)) ELSE <<>>

\* mutant: the kill switch is ignored
KillSwitch_Ignored(ps, enabled) == ps

\* lines 234-235: the kill switch
KillSwitch(ps, enabled) ==
    IF ps.exited THEN ps ELSE IF ~enabled THEN allow(ps) ELSE ps

\* lines 245-247: nothing installed, allow everything
PackMissing(ps, loaded) ==
    IF ps.exited THEN ps
    ELSE IF ~TruthyDict(loaded.profiles) \/ ~TruthyDict(loaded.policy) THEN allow(ps)
    ELSE ps

\* max_age (line 251)
MaxAge(policy) ==
    Get(Get(policy, "evidence", EmptyDict), "max_age_seconds", DefaultMaxAge)

\* lines 253-284: the evidence flags for the current diff
GatherEvidence(policy, r, sf, t) ==
    EvidenceFlags(_read_state(sf), _fingerprint(_git_diff_files(r)), MaxAge(policy), t)

\* lines 287 and 320: dispatch on the tool name
Dispatch(ps, policy, tool_name, tool_input, r, sf, t) ==
    IF ps.exited THEN ps
    ELSE IF tool_name = "Bash" THEN HandleBash(ps, policy, tool_input)
    ELSE IF tool_name \in {"Edit", "Write", "Read"}
    THEN HandleFile(ps, policy, tool_name, tool_input, GatherEvidence(policy, r, sf, t))
    ELSE ps

\* line 379: default allow
DefaultAllow(ps) == IF ps.exited THEN ps ELSE allow(ps)

\* main of the PreToolUse hook
main(enabled, cfg, tool_name, tool_input, r, sf, t, sinkOk) ==
    DefaultAllow(
        Dispatch(
            PackMissing(KillSwitch(StartProcess(sinkOk), enabled), _load_config(cfg)),
            _load_config(cfg).policy, tool_name, tool_input, r, sf, t))

(* ------------------------ the verification run ------------------------- *)

\* d[k] = v
DictSet(d, k, v) == [j \in DOMAIN d \cup {k} |-> IF j = k THEN v ELSE d[j]]

\* mutant: a runner exit code of 2 does not stop the loop
RECURSIVE RunLoop_NoBreak(_, _, _, _, _)
RunLoop_NoBreak(profiles, rcs, results, overall_rc, executed) ==
    IF profiles = <<>>
    THEN [results |-> results, overall_rc |-> overall_rc, executed |-> executed]
    ELSE LET rc == rcs[Head(profiles)]
             rs == DictSet(results, Head(profiles), rc)
             ex == Append(executed, Head(profiles))
         IN  RunLoop_NoBreak(Tail(profiles), rcs, rs,
                             IF rc = 2 THEN 2 ELSE IF rc # 0 THEN 1 ELSE overall_rc, ex)

\* The loop of cmd_run over the profiles (lines 228-254): rcs gives the exit
\* code the runner returns for each profile; a code of 2 stops the loop.
\* executed lists the profiles the runner was started for, in order.
RECURSIVE RunLoop(_, _, _, _, _)
RunLoop(profiles, rcs, results, overall_rc, executed) ==
    IF profiles = <<>>
    THEN [results |-> results, overall_rc |-> overall_rc, executed |-> executed]
    ELSE LET rc == rcs[Head(profiles)]
             rs == DictSet(results, Head(profiles), rc)
             ex == Append(executed, Head(profiles))
         IN  IF rc = 2 THEN [results |-> rs, overall_rc |-> 2, executed |-> ex]
             ELSE RunLoop(Tail(profiles), rcs, rs,
                          IF rc # 0 THEN 1 ELSE overall_rc, ex)

\* mutant: a tooling error is reported as a plain failure
Status_NoToolingError(overall_rc) ==
    IF overall_rc = 0 THEN "PASS" ELSE "FAIL"

\* status banner (line 259)
Status(overall_rc) ==
    IF overall_rc = 0 THEN "PASS" ELSE IF overall_rc = 2 THEN "TOOLING_ERROR" ELSE "FAIL"

\* The state record cmd_run persists (lines 262-281)
RunState(profiles, rcs, fp, t) ==
    LET done == RunLoop(profiles, rcs, EmptyDict, 0, <<>>)
    IN  [timestamp          |-> t,
         diff_fingerprint   |-> fp,
         profiles           |-> profiles,
         exit_code          |-> done.overall_rc,
         profile_exit_codes |-> done.results,
         status             |-> Status(done.overall_rc)]

\* _git_diff_files of the executor sorts the same way but raises when git fails
ExecutorDiffFiles(r) == Sorted(StripLines(r.lines))

\* _match_any of the executor: glob match, string equality when the glob
\* engine rejects the pattern.
RECURSIVE ExecutorMatchAny(_, _)
ExecutorMatchAny(file_path, patterns) ==
    IF patterns = <<>> THEN FALSE
    ELSE LET pat == Head(patterns)
         IN  \/ IF PathMatchRaises(pat)
                THEN file_path = pat
                ELSE PurePathMatch(_posix(file_path), pat)
             \/ ExecutorMatchAny(file_path, Tail(patterns))

\* the profile names in sorted() order
SortedProfileNames == <<"all", "authn-gateway", "docs", "manual", "types">>

\* mutant: a profile is selected only when every changed file triggers it
_select_profiles_AllFiles(cfg, files) ==
    LET profs == Get(cfg, "profiles", EmptyDict)
        triggered(name) ==
            /\ name \in DOMAIN profs
            /\ name # "all"
            /\ Get(profs[name], "auto_select", TRUE) # FALSE
            /\ files # <<>>
            /\ \A i \in 1..Len(files) :
                  ExecutorMatchAny(files[i], Get(profs[name], "triggers", <<>>))
    IN  SelectSeq(SortedProfileNames, triggered)

\* _select_profiles: the profiles other than "all", not opted out of
\* auto-selection, one of whose triggers matches a changed file; sorted.
_select_profiles(cfg, files) ==
    LET profs == Get(cfg, "profiles", EmptyDict)
        triggered(name) ==
            /\ name \in DOMAIN profs
            /\ name # "all"
            /\ Get(profs[name], "auto_select", TRUE) # FALSE
            /\ \E i \in 1..Len(files) :
                  ExecutorMatchAny(files[i], Get(profs[name], "triggers", <<>>))
    IN  SelectSeq(SortedProfileNames, triggered)

\* _load_profiles_config of the executor: raises when profiles.json is missing
_load_profiles_config(pfile, overrides) == ApplyOverrides(pfile.json, overrides)

\* How a run ends: its exit status, whether it replaced the state record, the
\* record, and the profiles the runner was started for.
RunResult(rc, wrote, state, done) ==
    [rc |-> rc, wrote |-> wrote, state |-> state,
     executed |-> done.executed, results |-> done.results]

\* a run that ends before the loop over the profiles
NothingRun == [results |-> EmptyDict, overall_rc |-> 0, executed |-> <<>>]

\* cmd_run (lines 179-290). arg is --profiles ("auto" or a list), runnerExists
\* whether the runner file is there, rcs the runner's exit code per profile,
\* writeOk whether the state file can be written. An uncaught exception ends
\* the process with status 1.
cmd_run(pfile, arg, runnerExists, rcs, r, t, writeOk) ==
    IF ~pfile.exists THEN RunResult(1, FALSE, EmptyDict, NothingRun)
    ELSE LET cfg == _load_profiles_config(pfile, NoProfileOverrides)
             profiles == IF arg.auto THEN _select_profiles(cfg, ExecutorDiffFiles(r))
                         ELSE arg.list
             runner_tpl == Get(Get(cfg, "runner", EmptyDict), "command_template", "")
         IN  IF arg.auto /\ ~r.gitOk THEN RunResult(1, FALSE, EmptyDict, NothingRun)
             ELSE IF profiles = <<>> THEN RunResult(0, FALSE, EmptyDict, NothingRun)
             ELSE IF ~TruthyStr(runner_tpl) THEN RunResult(2, FALSE, EmptyDict, NothingRun)
             ELSE IF ~runnerExists THEN RunResult(2, FALSE, EmptyDict, NothingRun)
             ELSE IF ~r.gitOk THEN RunResult(1, FALSE, EmptyDict, NothingRun)
             ELSE LET state == RunState(profiles, rcs,
                                        _fingerprint(ExecutorDiffFiles(r)), t)
                  IN  RunResult(state.exit_code, writeOk, state,
                                RunLoop(profiles, rcs, EmptyDict, 0, <<>>))

(* ------------------- the Stop hook (stop_orchestrator) ----------------- *)

\* AUTH_ASSURANCE_DEBOUNCE_S when the environment does not set it
DefaultDebounce == 300

\* _load_profiles_config of the Stop hook: None (here the empty object, which
\* main treats alike) when profiles.json is missing
StopLoadProfilesConfig(pfile, overrides) ==
    IF ~pfile.exists THEN EmptyDict ELSE ApplyOverrides(pfile.json, overrides)

\* _git_diff_files of the Stop hook: sorted, empty when git fails
StopDiffFiles(r) == IF r.gitOk THEN Sorted(StripLines(r.lines)) ELSE <<>>

\* _fingerprint of the Stop hook
StopFingerprint(files) == _fingerprint(files)

\* _select_profiles of the Stop hook (the same code as the executor's)
StopSelectProfiles(cfg, files) == _select_profiles(cfg, files)

\* _read_state of the Stop hook
StopReadState(f) == _read_state(f)

\* debounce_s (line 159); debounceEnv is <<>> when the variable is unset and
\* <<n>> when it is set to n
DebounceS(debounceEnv) == IF debounceEnv = <<>> THEN DefaultDebounce ELSE debounceEnv[1]

\* lines 161-165: the stored record has this fingerprint and is younger than
\* the debounce interval
Debounced(prev, fp, t, debounce_s) ==
    /\ TruthyState(prev)
    /\ Get(prev.value, "diff_fingerprint", NoFingerprint) = fp
    /\ (t - Get(prev.value, "timestamp", 0)) < debounce_s

\* main of the Stop hook, up to the decision to start the executor: whether
\* it starts it, for which profiles, and the fingerprint it computed.
StopMain(active, enabled, pfile, debounceEnv, autorun, r, sf, t) ==
    LET cfg      == StopLoadProfilesConfig(pfile, NoProfileOverrides)
        files    == StopDiffFiles(r)
        fp       == StopFingerprint(files)
        profiles == StopSelectProfiles(cfg, files)
    IN  [launch   |-> /\ ~active
                      /\ enabled
                      /\ TruthyDict(cfg)
                      /\ files # <<>>
                      /\ ~Debounced(StopReadState(sf), fp, t, DebounceS(debounceEnv))
                      /\ profiles # <<>>
                      /\ autorun,
         profiles |-> profiles,
         fp       |-> fp]

(* ------------------------- inputs of the model ------------------------- *)

\* freshness window of the installed policy, in seconds
MaxAgeSeconds == 1

\* AUTH_ASSURANCE_DEBOUNCE_S when the environment sets it, in seconds
DebounceSeconds == 1

\* commands
CmdRm     == <<"r", "m", " ", "/">>
CmdRmPad  == <<" ", "r", "m", " ", "/", " ">>
CmdRs     == <<"r", "s">>
CmdLs     == <<"l", "s">>

\* paths
PathSP    == <<"s", "/", "p">>
PathSPWin == <<"s", "\\", "p">>
PathKP    == <<"k", "/", "p">>
PathAP    == <<"a", "/", "p">>
PathAX    == <<"a", "/", "x">>
PathMC    == <<"m", "/", "c">>
PathAC    == <<"a", "/", "c">>
PathMX    == <<"m", "/", "x">>

\* The installed policy: blocked "rm *", confirm "r*" then "rs", zeroAccess
\* "s/*", confirmWrite "*/c", require-success "*/p", require-confirm "a/*".
Policy1 ==
    [bash |-> [blocked |-> << [pattern |-> <<"r", "m", " ", "*">>, reason |-> "destructive"] >>,
               confirm |-> << [pattern |-> <<"r", "*">>, reason |-> "risky"],
                              [pattern |-> <<"r", "s">>, reason |-> "second"] >>],
     paths |-> [zeroAccess   |-> << <<"s", "/", "*">> >>,
                confirmWrite |-> << <<"*", "/", "c">> >>],
     evidence |-> [max_age_seconds |-> MaxAgeSeconds,
                   require_success_for_paths |-> << <<"*", "/", "p">> >>,
                   require_confirm_without_evidence_for_paths |-> << <<"a", "/", "*">> >>]]

\* A policy whose blocked rule has an empty reason, whose confirm rules have
\* an empty reason ("l*"), a reason ("ls") and no reason ("r*"), whose
\* zeroAccess pattern is the empty string (rejected by the glob
\* engine) and which sets neither max_age_seconds nor require-success paths.
Policy2 ==
    [bash |-> [blocked |-> << [pattern |-> <<"r", "m", " ", "*">>, reason |-> ""] >>,
               confirm |-> << [pattern |-> <<"l", "*">>, reason |-> ""],
                              [pattern |-> <<"l", "s">>, reason |-> "listing"],
                              [pattern |-> <<"r", "*">>] >>],
     paths |-> [zeroAccess   |-> << <<>> >>,
                confirmWrite |-> << <<"*", "/", "c">> >>],
     evidence |-> [require_confirm_without_evidence_for_paths |-> << <<"a", "/", "*">> >>]]

\* A local override: replaces the zeroAccess list and the freshness window.
Override1 ==
    [paths |-> [zeroAccess |-> << <<"m", "/", "*">> >>],
     evidence |-> [max_age_seconds |-> 0]]

\* profiles.json: the runner and the profiles with their triggers
ProfilesJson ==
    [base_branch |-> "origin/develop",
     runner |-> [command_template |-> "run {profile} {base_branch}"],
     profiles |-> ("authn-gateway" :> [triggers |-> << <<"k", "/", "*">> >>])
               @@ ("types" :> [triggers |-> << <<"a", "/", "*">>, <<>> >>])
               @@ ("manual" :> [triggers |-> << <<"*">> >>, auto_select |-> FALSE])
               @@ ("docs" :> [auto_select |-> TRUE])
               @@ ("all" :> [triggers |-> << <<"*">> >>])]

\* profiles.json without a runner command template
ProfilesJsonNoRunner == [base_branch |-> "origin/develop", profiles |-> EmptyDict]

Config(profiles, policy, overrides) ==
    [profiles |-> profiles, policy |-> policy, overrides |-> overrides]

NoOverrides == <<AbsentFile, AbsentFile>>

\* What the configuration directory can hold when the hook runs. In the last
\* one the first override candidate is unparsable (skipped) and the second
\* is merged in.
Configs ==
    { Config(AbsentFile, AbsentFile, NoOverrides),
      Config(JsonFile(ProfilesJson), AbsentFile, NoOverrides),
      Config(AbsentFile, JsonFile(Policy1), NoOverrides),
      Config(JsonFile(EmptyDict), JsonFile(Policy1), NoOverrides),
      Config(JsonFile(ProfilesJson), JsonFile(Policy1), NoOverrides),
      Config(JsonFile(ProfilesJson), JsonFile(Policy2), NoOverrides),
      Config(JsonFile(ProfilesJson), JsonFile(Policy1), <<MalformedFile, JsonFile(Override1)>>) }

FileTools == {"Read", "Write", "Edit"}
ToolNames == FileTools \cup {"Bash", "Glob"}

BashInputs ==
    { StrInput(CmdRm),
      DictInput([command |-> CmdRmPad]),
      DictInput([command |-> CmdRs]),
      DictInput([command |-> CmdLs]),
      OtherInput }

FileInputs ==
    { DictInput([file_path |-> q]) :
        q \in {PathSP, PathSPWin, PathKP, PathAP, PathAX, PathMC, PathAC, PathMX} }
    \cup { DictInput([path |-> PathKP]), OtherInput }

InputsOf(tool_name) ==
    IF tool_name = "Bash" THEN BashInputs
    ELSE IF tool_name \in FileTools THEN FileInputs
    ELSE {OtherInput}

\* The repository: whether "git diff base...HEAD" works, and the lines it
\* prints when it does (the changed files, whether or not the query works).
Repos ==
    { [gitOk |-> TRUE,  lines |-> <<>>],
      [gitOk |-> TRUE,  lines |-> <<PathKP, PathAX>>],
      [gitOk |-> FALSE, lines |-> <<PathKP, PathAX>>] }

ProfileNames == {DesignatedProfile, "types"}
RunnerCodes == {0, 1, 2}

\* --profiles: "auto", or a comma list
AutoArg == [auto |-> TRUE, list |-> <<>>]
ListArg(l) == [auto |-> FALSE, list |-> l]
ProfileArgs ==
    { AutoArg, ListArg(<<>>), ListArg(<<DesignatedProfile>>), ListArg(<<"types">>),
      ListArg(<<DesignatedProfile, "types">>) }

\* profiles.json as the executor finds it
ExecutorConfigs == { AbsentFile, JsonFile(ProfilesJson), JsonFile(ProfilesJsonNoRunner) }

(* ------------------------------ the system ---------------------------- *)

\* No arbitration call in progress.
Idle ==
    [pc |-> "idle", enabled |-> FALSE, cfg |-> Config(AbsentFile, AbsentFile, NoOverrides),
     tool_name |-> "", tool_input |-> OtherInput,
     out |-> <<>>, log |-> <<>>, written |-> <<>>, order |-> <<>>]

\* No executor run to report.
RunIdle ==
    [pc |-> "idle", pfile |-> AbsentFile, arg |-> AutoArg, runnerExists |-> FALSE,
     rc |-> 0, executed |-> <<>>, results |-> EmptyDict, wrote |-> FALSE,
     replaced |-> AbsentFile]

\* No Stop hook call in progress.
StopIdle ==
    [pc |-> "idle", active |-> FALSE, enabled |-> FALSE, pfile |-> AbsentFile,
     debounce_s |-> DefaultDebounce, autorun |-> FALSE, launched |-> FALSE]

\* The Stop hook has not started the executor yet.
NoLaunch == [at |-> -1, fp |-> NoFingerprint]

\* no hook call and no executor run is in progress
Quiet == hook.pc = "idle" /\ run.pc = "idle" /\ stop.pc = "idle"

Init ==
    /\ now = 0
    /\ repo = [gitOk |-> TRUE, lines |-> <<>>]
    /\ stateFile = AbsentFile
    /\ hook = Idle
    /\ run = RunIdle
    /\ stop = StopIdle
    /\ lastLaunch = NoLaunch

\* One second passes.
Tick ==
    /\ Quiet
    /\ now < MaxNow
    /\ now' = now + 1
    /\ UNCHANGED <<repo, stateFile, hook, run, stop, lastLaunch>>

\* The working tree changes (commits, a broken base reference); the launches
\* remembered are those since the last change.
ChangeRepo ==
    /\ Quiet
    /\ \E r \in Repos \ {repo} : repo' = r
    /\ lastLaunch' = NoLaunch
    /\ UNCHANGED <<now, stateFile, hook, run, stop>>

\* mutant: the run updates the exit codes of the record it finds instead of
\* replacing the record
Run_MergesRecord ==
    /\ Quiet
    /\ \E pfile \in ExecutorConfigs, arg \in ProfileArgs, runnerExists \in BOOLEAN,
          rcs \in [ProfileNames -> RunnerCodes], writeOk \in BOOLEAN :
          LET res == cmd_run(pfile, arg, runnerExists, rcs, repo, now, writeOk)
              old == IF TruthyState(_read_state(stateFile))
                     THEN stateFile.json.profile_exit_codes ELSE EmptyDict
          IN  /\ stateFile' = IF res.wrote
                              THEN JsonFile([res.state EXCEPT
                                       !.profile_exit_codes = @ @@ old])
                              ELSE stateFile
              /\ run' = [pc |-> "exited", pfile |-> pfile, arg |-> arg,
                         runnerExists |-> runnerExists, rc |-> res.rc,
                         executed |-> res.executed, results |-> res.results,
                         wrote |-> res.wrote, replaced |-> stateFile]
    /\ UNCHANGED <<now, repo, hook, stop, lastLaunch>>

\* One run of the executor, to its exit: it replaces the state record when it
\* gets as far as writing it. replaced is the state file as the run found it.
Run ==
    /\ Quiet
    /\ \E pfile \in ExecutorConfigs, arg \in ProfileArgs, runnerExists \in BOOLEAN,
          rcs \in [ProfileNames -> RunnerCodes], writeOk \in BOOLEAN :
          LET res == cmd_run(pfile, arg, runnerExists, rcs, repo, now, writeOk)
          IN  /\ stateFile' = IF res.wrote THEN JsonFile(res.state) ELSE stateFile
              /\ run' = [pc |-> "exited", pfile |-> pfile, arg |-> arg,
                         runnerExists |-> runnerExists, rc |-> res.rc,
                         executed |-> res.executed, results |-> res.results,
                         wrote |-> res.wrote, replaced |-> stateFile]
    /\ UNCHANGED <<now, repo, hook, stop, lastLaunch>>

\* The state file is left unparsable: a write of the record cut short
\* (write_text truncates the file before it writes).
CorruptState ==
    /\ Quiet
    /\ stateFile # MalformedFile
    /\ stateFile' = MalformedFile
    /\ UNCHANGED <<now, repo, hook, run, stop, lastLaunch>>

\* The exit status of the run is consumed by whoever started it.
RunExit ==
    /\ run.pc = "exited"
    /\ run' = RunIdle
    /\ UNCHANGED <<now, repo, stateFile, hook, stop, lastLaunch>>

\* Whether the audit sink can be written during the call. It is an input of
\* the calls that get as far as the Bash or file branch; the others end before
\* any use of the sink.
SinkStates(enabled, cfg, tool_name) ==
    IF \/ PackMissing(KillSwitch(StartProcess(TRUE), enabled), _load_config(cfg)).exited
       \/ tool_name \notin FileTools \cup {"Bash"}
    THEN {TRUE}
    ELSE BOOLEAN

\* One arbitration call: the hook process runs main to its exit.
PreToolUse ==
    /\ Quiet
    /\ \E enabled \in BOOLEAN, cfg \in Configs, tool_name \in ToolNames :
         \E tool_input \in InputsOf(tool_name), sinkOk \in SinkStates(enabled, cfg, tool_name) :
            LET ps == main(enabled, cfg, tool_name, tool_input, repo, stateFile,
                           now, sinkOk)
            IN  hook' = [pc |-> "responded", enabled |-> enabled, cfg |-> cfg,
                         tool_name |-> tool_name, tool_input |-> tool_input,
                         out |-> ps.out, log |-> ps.log, written |-> ps.written,
                         order |-> ps.order]
    /\ UNCHANGED <<now, repo, stateFile, run, stop, lastLaunch>>

\* The response is consumed by the host agent.
Return ==
    /\ hook.pc = "responded"
    /\ hook' = Idle
    /\ UNCHANGED <<now, repo, stateFile, run, stop, lastLaunch>>

Next == Tick \/ ChangeRepo \/ Run \/ RunExit \/ CorruptState \/ PreToolUse \/ Return

Spec == Init /\ [][Next]_vars

\* What the executor started by the Stop hook leaves in the state file: the
\* hook waits for it (subprocess.call) and ignores its exit status. The
\* executor finds the profiles.json the hook found and gets the selected
\* profiles as its --profiles list.
LaunchExecutor(pfile, profiles, r, sf, t) ==
    { IF res.wrote THEN JsonFile(res.state) ELSE sf :
        res \in { cmd_run(pfile, ListArg(profiles), runnerExists, rcs, r, t, writeOk) :
                    runnerExists \in BOOLEAN, rcs \in [ProfileNames -> RunnerCodes],
                    writeOk \in BOOLEAN } }

\* One Stop hook call, to its exit, the executor run it starts included.
StopHook ==
    /\ Quiet
    /\ \E active \in BOOLEAN, enabled \in BOOLEAN, pfile \in ExecutorConfigs,
          debounceEnv \in {<<>>, <<DebounceSeconds>>}, autorun \in BOOLEAN :
          LET d == StopMain(active, enabled, pfile, debounceEnv, autorun,
                            repo, stateFile, now)
          IN  /\ stop' = [pc |-> "done", active |-> active, enabled |-> enabled,
                          pfile |-> pfile, debounce_s |-> DebounceS(debounceEnv),
                          autorun |-> autorun, launched |-> d.launch]
              /\ IF d.launch
                 THEN /\ stateFile' \in LaunchExecutor(pfile, d.profiles, repo, stateFile, now)
                      /\ lastLaunch' = [at |-> now, fp |-> d.fp]
                 ELSE UNCHANGED <<stateFile, lastLaunch>>
    /\ UNCHANGED <<now, repo, hook, run>>

\* The Stop hook process is gone.
StopReturn ==
    /\ stop.pc = "done"
    /\ stop' = StopIdle
    /\ UNCHANGED <<now, repo, stateFile, hook, run, lastLaunch>>

\* The Stop hook with the executor, the clock and the repository: the system
\* in which launches are counted. Arbitration calls change nothing the Stop
\* hook reads and are left out.
NextStop ==
    Tick \/ ChangeRepo \/ Run \/ RunExit \/ CorruptState \/ StopHook \/ StopReturn

SpecStop == Init /\ [][NextStop]_vars

\* The record a run in progress is writing, as text.
PendingRecord ==
    [timestamp          |-> now,
     diff_fingerprint   |-> _fingerprint(ExecutorDiffFiles(repo)),
     profiles           |-> IF run.arg.auto
                            THEN _select_profiles(run.pfile.json, ExecutorDiffFiles(repo))
                            ELSE run.arg.list,
     exit_code          |-> run.rc,
     profile_exit_codes |-> run.results,
     status             |-> Status(run.rc)]
PendingText == json_dumps(PendingRecord)

\* the run is between opening the state file for writing and closing it
Writing == run.pc \in {"truncated", "partial"}

\* A run of the executor up to write_text (line 281) opening the state file:
\* the file is truncated and nothing is written yet.
RunOpensState ==
    /\ Quiet
    /\ \E pfile \in ExecutorConfigs, arg \in ProfileArgs, runnerExists \in BOOLEAN,
          rcs \in [ProfileNames -> RunnerCodes] :
          LET res == cmd_run(pfile, arg, runnerExists, rcs, repo, now, TRUE)
          IN  /\ res.wrote
              /\ stateFile' = FileOfText(<<>>)
              /\ run' = [pc |-> "truncated", pfile |-> pfile, arg |-> arg,
                         runnerExists |-> runnerExists, rc |-> res.rc,
                         executed |-> res.executed, results |-> res.results,
                         wrote |-> FALSE, replaced |-> stateFile]
    /\ UNCHANGED <<now, repo, hook, stop, lastLaunch>>

\* Part of the text has reached the file.
RunWritesPart ==
    /\ Writing /\ hook.pc = "idle"
    /\ \E k \in 1..(Len(PendingText) - 1) :
          stateFile' = FileOfText(SubSeq(PendingText, 1, k))
    /\ run' = [run EXCEPT !.pc = "partial"]
    /\ UNCHANGED <<now, repo, hook, stop, lastLaunch>>

\* The whole text has reached the file and the run ends.
RunWritesAll ==
    /\ Writing /\ hook.pc = "idle"
    /\ stateFile' = FileOfText(PendingText)
    /\ run' = [run EXCEPT !.pc = "exited", !.wrote = TRUE]
    /\ UNCHANGED <<now, repo, hook, stop, lastLaunch>>

\* the arbitration calls made while a run is writing: file actions on the
\* gated paths, with the pack installed
RacingCalls ==
    [cfg : {Config(JsonFile(ProfilesJson), JsonFile(Policy1), NoOverrides)},
     tool_name : {"Read", "Write"},
     tool_input : { DictInput([file_path |-> q]) : q \in {PathKP, PathAP, PathAX, PathMC} }]

\* One arbitration call made while a run is writing the state file: the hook
\* reads the file as it is at that moment.
PreToolUseDuringWrite ==
    /\ Writing /\ hook.pc = "idle"
    /\ \E c \in RacingCalls :
          LET ps == main(TRUE, c.cfg, c.tool_name, c.tool_input, repo, stateFile,
                         now, TRUE)
          IN  hook' = [pc |-> "responded", enabled |-> TRUE, cfg |-> c.cfg,
                       tool_name |-> c.tool_name, tool_input |-> c.tool_input,
                       out |-> ps.out, log |-> ps.log, written |-> ps.written,
                       order |-> ps.order]
    /\ UNCHANGED <<now, repo, stateFile, run, stop, lastLaunch>>

\* The executor writing the state file step by step, with arbitration calls
\* in between: the system in which a read races with the write.
NextRace ==
    \/ Tick \/ ChangeRepo \/ RunOpensState \/ RunWritesPart \/ RunWritesAll
    \/ RunExit \/ PreToolUseDuringWrite \/ Return

SpecRace == Init /\ [][NextRace]_vars

(* ---------------------- the base reference knobs ----------------------- *)

\* base_branch when no file and no variable sets it
DefaultBase == "origin/develop"
OtherBase == "origin/main"

\* Stop hook, line 158: AUTH_ASSURANCE_BASE_BRANCH when it is set and not
\* empty, else base_branch of the merged profiles configuration. baseEnv is
\* <<>> when the variable is unset and <<s>> when it is set to s.
StopBase(baseEnv, cfg) ==
    IF baseEnv # <<>> /\ baseEnv[1] # ""
    THEN baseEnv[1]
    ELSE Get(cfg, "base_branch", DefaultBase)

\* executor, line 183: --base when given and not empty, else base_branch of
\* the merged profiles configuration
ExecutorBase(argBase, cfg) ==
    IF argBase # "" THEN argBase ELSE Get(cfg, "base_branch", DefaultBase)

\* PreToolUse hook, lines 111-140 and 249: base_branch of profiles.json as
\* _load_config returns it, which merges the policy overrides only; the
\* hook does not read AUTH_ASSURANCE_BASE_BRANCH.
GuardBase(baseEnv, pfile, overrides) == Get(pfile.json, "base_branch", DefaultBase)

\* "git diff base...HEAD" in a repository with two base references: lines
\* is the answer for origin/develop, other the answer for origin/main.
DiffAgainst(r, base) ==
    [gitOk |-> r.gitOk, lines |-> IF base = DefaultBase THEN r.lines ELSE r.other]

BaseRepos ==
    { [gitOk |-> TRUE, lines |-> <<>>,       other |-> <<>>],
      [gitOk |-> TRUE, lines |-> <<PathKP>>, other |-> <<PathKP>>],
      [gitOk |-> TRUE, lines |-> <<PathKP>>, other |-> <<PathKP, PathAX>>],
      [gitOk |-> TRUE, lines |-> <<>>,       other |-> <<PathKP>>] }

\* AUTH_ASSURANCE_BASE_BRANCH: unset, empty, or a reference
BaseEnvs == { <<>>, <<"">>, <<OtherBase>> }

\* profiles.json with either base reference
BaseProfiles ==
    { JsonFile(ProfilesJson), JsonFile([ProfilesJson EXCEPT !.base_branch = OtherBase]) }

\* the local profiles overrides: none, profiles.local.json naming a base
\* reference, the overrides directory naming one
BaseOverrides ==
    { NoProfileOverrides,
      <<JsonFile([base_branch |-> OtherBase]), AbsentFile>>,
      <<AbsentFile, JsonFile([base_branch |-> DefaultBase])>> }

\* The knobs as the last Stop hook call that started the executor found
\* them, and how the run it started ended.
NoBaseLaunch ==
    [at |-> -1, fp |-> NoFingerprint, baseEnv |-> <<>>, pfile |-> AbsentFile,
     overrides |-> NoProfileOverrides, rc |-> 0, wrote |-> FALSE]

InitBase ==
    /\ now = 0
    /\ repo = [gitOk |-> TRUE, lines |-> <<>>, other |-> <<>>]
    /\ stateFile = AbsentFile
    /\ hook = Idle
    /\ run = RunIdle
    /\ stop = StopIdle
    /\ lastLaunch = NoBaseLaunch

\* The working tree changes; the launch remembered is forgotten.
ChangeBaseRepo ==
    /\ Quiet
    /\ \E r \in BaseRepos \ {repo} : repo' = r
    /\ lastLaunch' = NoBaseLaunch
    /\ UNCHANGED <<now, stateFile, hook, run, stop>>

\* One Stop hook call with the pack enabled and autorun on, to its exit, the
\* executor run it starts included: the hook resolves the base reference,
\* diffs against it and passes it to the executor as --base. The runner is
\* there and ends with the same code for every profile; the state file can
\* be written.
StopHookBase ==
    /\ Quiet
    /\ \E baseEnv \in BaseEnvs, pfile \in BaseProfiles, overrides \in BaseOverrides,
          code \in RunnerCodes :
          LET cfg  == StopLoadProfilesConfig(pfile, overrides)
              rcs  == [p \in ProfileNames |-> code]
              base == StopBase(baseEnv, cfg)
              d    == StopMain(FALSE, TRUE, JsonFile(cfg), <<>>, TRUE,
                               DiffAgainst(repo, base), stateFile, now)
              res  == cmd_run(JsonFile(_load_profiles_config(pfile, overrides)),
                              ListArg(d.profiles), TRUE, rcs,
                              DiffAgainst(repo, ExecutorBase(base, cfg)), now, TRUE)
          IN  /\ stop' = [pc |-> "done", active |-> FALSE, enabled |-> TRUE,
                          pfile |-> pfile, debounce_s |-> DefaultDebounce,
                          autorun |-> TRUE, launched |-> d.launch]
              /\ IF d.launch
                 THEN /\ stateFile' = IF res.wrote THEN JsonFile(res.state) ELSE stateFile
                      /\ lastLaunch' = [at |-> now, fp |-> d.fp, baseEnv |-> baseEnv,
                                        pfile |-> pfile, overrides |-> overrides,
                                        rc |-> res.rc, wrote |-> res.wrote]
                 ELSE UNCHANGED <<stateFile, lastLaunch>>
    /\ UNCHANGED <<now, repo, hook, run>>

\* the file actions asked for after a launch
BaseCalls ==
    [tool_name : {"Read", "Write"},
     tool_input : { DictInput([file_path |-> q]) : q \in {PathKP, PathAX, PathMX} }]

\* One arbitration call after the Stop hook started a run, with the
\* configuration files and the environment as that Stop hook call found them.
PreToolUseBase ==
    /\ Quiet
    /\ lastLaunch.at >= 0
    /\ \E c \in BaseCalls :
          LET cfg == Config(lastLaunch.pfile, JsonFile(Policy1), NoOverrides)
              base == GuardBase(lastLaunch.baseEnv, lastLaunch.pfile, lastLaunch.overrides)
              ps == main(TRUE, cfg, c.tool_name, c.tool_input, DiffAgainst(repo, base),
                         stateFile, now, TRUE)
          IN  hook' = [pc |-> "responded", enabled |-> TRUE, cfg |-> cfg,
                       tool_name |-> c.tool_name, tool_input |-> c.tool_input,
                       out |-> ps.out, log |-> ps.log, written |-> ps.written,
                       order |-> ps.order]
    /\ UNCHANGED <<now, repo, stateFile, run, stop, lastLaunch>>

\* The Stop hook, the executor it starts and the PreToolUse hook in a
\* repository with two base references.
NextBase ==
    Tick \/ ChangeBaseRepo \/ StopHookBase \/ StopReturn \/ PreToolUseBase \/ Return

SpecBase == InitBase /\ [][NextBase]_vars

(* ----------------------- vocabulary of the claims ---------------------- *)

\* an arbitration call has run to its exit
Responded == hook.pc = "responded"

\* the call wrote exactly one verdict, d
Verdict(d) == Len(hook.out) = 1 /\ hook.out[1].decision = d

\* both configuration files exist and hold a non-empty object
PackInstalled ==
    /\ hook.cfg.profiles.exists /\ TruthyDict(hook.cfg.profiles.json)
    /\ hook.cfg.policy.exists /\ TruthyDict(hook.cfg.policy.json)

\* the policy in force: base policy with the local overrides merged in
EffectivePolicy == _load_config(hook.cfg).policy

\* the command some rule of the list matches
RuleMatches(cmd, rules) ==
    \E i \in 1..Len(rules) :
        /\ "pattern" \in DOMAIN rules[i]
        /\ rules[i].pattern # <<>>
        /\ fnmatchcase(cmd, rules[i].pattern)

BashCall == Responded /\ hook.enabled /\ PackInstalled /\ hook.tool_name = "Bash"
FileCall == Responded /\ hook.enabled /\ PackInstalled /\ hook.tool_name \in FileTools

CommandBlocked ==
    RuleMatches(BashCommand(hook.tool_input), _bash_patterns(EffectivePolicy, "blocked"))
CommandConfirm ==
    RuleMatches(BashCommand(hook.tool_input), _bash_patterns(EffectivePolicy, "confirm"))

\* the path of the call matches a pattern of the bucket
InBucket(k1, k2) ==
    _match_any(FilePath(hook.tool_input), _policy_lists(EffectivePolicy, k1, k2))

ZeroAccessPath     == InBucket("paths", "zeroAccess")
RequireSuccessPath == InBucket("evidence", "require_success_for_paths")
RequireConfirmPath == InBucket("evidence", "require_confirm_without_evidence_for_paths")
ConfirmWritePath   == InBucket("paths", "confirmWrite")

\* the EvidenceRecord and the terms of the freshness test
RecordExists == stateFile.exists /\ stateFile.ok /\ TruthyDict(stateFile.json)
CurrentFingerprint == _fingerprint(_git_diff_files(repo))
FingerprintMatches == stateFile.json.diff_fingerprint = CurrentFingerprint
Age == now - stateFile.json.timestamp
Window == MaxAge(EffectivePolicy)
DesignatedPassed ==
    /\ DesignatedProfile \in DOMAIN stateFile.json.profile_exit_codes
    /\ stateFile.json.profile_exit_codes[DesignatedProfile] = 0

(* ------------------------------- claims ------------------------------- *)

\* C1: with the enablement switch off, every arbitration call returns allow,
\* whatever the tool, input, configuration and evidence are.
C1_DisabledAllows ==
    (Responded /\ ~hook.enabled) => Verdict("allow")

\* C1 witness: a disabled call on a command the installed policy blocks.
C1_Witness ==
    /\ Responded /\ ~hook.enabled /\ PackInstalled
    /\ hook.tool_name = "Bash" /\ CommandBlocked
    /\ Verdict("allow")

\* C2 (as claimed): a Bash command that matches a rule of the blocked bucket
\* is denied, whatever the rules' reason strings are.
C2_BlockedDenied ==
    (BashCall /\ CommandBlocked) => Verdict("deny")

\* C3: a file action on a path matching zeroAccess is denied, for Read, Write
\* and Edit and for every state of the evidence.
C3_ZeroAccessDenied ==
    (FileCall /\ ZeroAccessPath) =>
        /\ Verdict("deny")
        /\ hook.log = <<AuditEvent(hook.tool_name, "block", "zeroAccess",
                                   FilePath(hook.tool_input))>>

\* C3 witness: a Read of a zeroAccess path is denied although the record is
\* fresh for the current diff with the designated profile passing.
C3_Witness ==
    /\ FileCall /\ ZeroAccessPath /\ hook.tool_name = "Read"
    /\ RecordExists /\ FingerprintMatches /\ Age <= Window /\ DesignatedPassed
    /\ stateFile.json.exit_code = 0
    /\ Verdict("deny")

\* the designated profile passed in a record that is fresh for this diff
EvidenceLifts ==
    RecordExists /\ DesignatedPassed /\ FingerprintMatches /\ Age <= Window

\* a completed run (pass or fail) is on record, fresh for this diff
RanRecently ==
    /\ RecordExists /\ FingerprintMatches /\ Age <= Window
    /\ stateFile.json.exit_code \in {0, 1}

\* C4: on a require-success path outside zeroAccess the verdict is deny
\* unless the record exists, has exit code 0 for the designated profile, has
\* the current fingerprint and is no older than the freshness window.
C4_RequireSuccessGate ==
    (FileCall /\ RequireSuccessPath /\ ~ZeroAccessPath) =>
        (Verdict("deny") <=> ~EvidenceLifts)

\* C4 witness: the deny stands against a fresh, passing record of the current
\* diff that has no entry for the designated profile.
C4_Witness ==
    /\ FileCall /\ RequireSuccessPath /\ ~ZeroAccessPath
    /\ RecordExists /\ FingerprintMatches /\ Age <= Window
    /\ stateFile.json.exit_code = 0
    /\ DesignatedProfile \notin DOMAIN stateFile.json.profile_exit_codes
    /\ Verdict("deny")

\* C5: on a require-confirm path not denied by an earlier step the verdict is
\* ask unless a run with overall exit code 0 or 1 is on record, fresh for this
\* diff; with such a record the verdict is allow.
C5_RequireConfirmGate ==
    (/\ FileCall /\ RequireConfirmPath /\ ~ZeroAccessPath
     /\ ~(RequireSuccessPath /\ ~EvidenceLifts)) =>
        IF RanRecently THEN Verdict("allow") ELSE Verdict("ask")

\* C5 witness: a fresh record of the current diff with overall exit code 2
\* does not suppress the ask.
C5_Witness ==
    /\ FileCall /\ RequireConfirmPath /\ ~ZeroAccessPath /\ ~RequireSuccessPath
    /\ RecordExists /\ FingerprintMatches /\ Age <= Window
    /\ stateFile.json.exit_code = 2
    /\ Verdict("ask")

\* the step of the chain that decides a file action, by its audit reason
ChainStep ==
    IF ZeroAccessPath THEN "zeroAccess"
    ELSE IF RequireSuccessPath /\ ~EvidenceLifts THEN "authn_gateway_not_pass"
    ELSE IF RequireConfirmPath /\ ~RanRecently THEN "no_fresh_evidence"
    ELSE IF hook.tool_name \in {"Write", "Edit"} /\ ConfirmWritePath /\ ~RanRecently
         THEN "confirmWrite"
    ELSE None

\* the verdict each step of the chain gives
StepVerdict(step) ==
    IF step \in {"zeroAccess", "authn_gateway_not_pass"} THEN "deny"
    ELSE IF step \in {"no_fresh_evidence", "confirmWrite"} THEN "ask"
    ELSE "allow"

\* C6: every call writes exactly one verdict, and the verdict of a file action
\* is that of the first applicable step in the order zeroAccess deny,
\* require-success deny, require-confirm ask, confirmWrite ask, allow.
C6_PrecedenceChain ==
    /\ Responded => Len(hook.out) = 1
    /\ FileCall => LET step == ChainStep
                   IN  /\ Verdict(StepVerdict(step))
                       /\ Len(hook.log) = 1
                       /\ hook.log[1].reason = step

\* C6 witness: a path in the require-success bucket (designated profile not
\* passing) and in the require-confirm bucket is denied, not asked.
C6_Witness ==
    /\ FileCall /\ ~ZeroAccessPath /\ RequireSuccessPath /\ RequireConfirmPath
    /\ ~EvidenceLifts
    /\ Verdict("deny")

\* the verdict of a file action when no record exists
AbsentVerdict ==
    IF ZeroAccessPath \/ RequireSuccessPath THEN "deny"
    ELSE IF RequireConfirmPath THEN "ask"
    ELSE IF hook.tool_name \in {"Write", "Edit"} /\ ConfirmWritePath THEN "ask"
    ELSE "allow"

\* C7: a record with exit code 0 (overall and for the designated profile)
\* whose fingerprint is not the current one counts for nothing: the verdict is
\* the one an absent record gives, whatever the record's age.
C7_MismatchCountsForNothing ==
    (/\ FileCall /\ RecordExists /\ ~FingerprintMatches
     /\ stateFile.json.exit_code = 0 /\ DesignatedPassed) =>
        /\ Verdict(AbsentVerdict)
        /\ hook.out = main(hook.enabled, hook.cfg, hook.tool_name, hook.tool_input,
                           repo, AbsentFile, now, TRUE).out

\* C7 witness: a passing record within the window, of another diff, and the
\* require-success path is denied.
C7_Witness ==
    /\ FileCall /\ RequireSuccessPath /\ ~ZeroAccessPath
    /\ RecordExists /\ ~FingerprintMatches /\ Age <= Window
    /\ stateFile.json.exit_code = 0 /\ DesignatedPassed
    /\ Verdict("deny")

\* C8: with a matching fingerprint, a record of age exactly the window is
\* fresh for all three evidence tests and one of age window + 1 is stale for
\* all three; the verdict on a require-confirm path follows.
C8_FreshnessBoundary ==
    (FileCall /\ RecordExists /\ FingerprintMatches) =>
        LET ev == GatherEvidence(EffectivePolicy, repo, stateFile, now)
            rc == stateFile.json.exit_code
            gated == RequireConfirmPath /\ ~ZeroAccessPath /\ ~RequireSuccessPath
        IN  /\ Age = Window =>
                /\ ev.evidence_pass <=> rc = 0
                /\ ev.ran_fresh_for_diff <=> rc \in {0, 1}
                /\ ev.authn_gateway_pass <=> DesignatedPassed
                /\ (gated /\ rc \in {0, 1}) => Verdict("allow")
            /\ Age = Window + 1 =>
                /\ ~ev.evidence_pass
                /\ ~ev.ran_fresh_for_diff
                /\ ~ev.authn_gateway_pass
                /\ gated => Verdict("ask")

\* C8 witness: a record whose age equals a non-zero window lifts the ask.
C8_Witness ==
    /\ FileCall /\ RecordExists /\ FingerprintMatches
    /\ Age = Window /\ Age > 0
    /\ RequireConfirmPath /\ ~ZeroAccessPath /\ ~RequireSuccessPath
    /\ Verdict("allow")

\* C9 (as claimed): every arbitration call emits exactly one AuditEvent, and
\* emits it before its verdict, on every branch.
C9_OneAuditEventPerCall ==
    Responded => hook.order = <<"audit", "verdict">>

\* C10: with the engine enabled and profiles.json or security_policy.json
\* absent, every call returns allow.
C10_MissingConfigAllows ==
    (Responded /\ hook.enabled /\ (~hook.cfg.profiles.exists \/ ~hook.cfg.policy.exists))
        => Verdict("allow")

\* C10 witness: profiles.json is absent, and a command that the policy file
\* on disk blocks is allowed.
C10_Witness ==
    /\ Responded /\ hook.enabled
    /\ ~hook.cfg.profiles.exists /\ hook.cfg.policy.exists
    /\ hook.tool_name = "Bash"
    /\ RuleMatches(BashCommand(hook.tool_input),
                   _bash_patterns(hook.cfg.policy.json, "blocked"))
    /\ Verdict("allow")

\* the first rule of the list that matches the command
FirstMatch(cmd, rules) ==
    CHOOSE i \in 1..Len(rules) :
        /\ RuleMatches(cmd, <<rules[i]>>)
        /\ \A j \in 1..(i - 1) : ~RuleMatches(cmd, <<rules[j]>>)

\* the reason the policy gives for the command's first confirm rule
FirstConfirmReason ==
    LET rules == _bash_patterns(EffectivePolicy, "confirm")
    IN  Get(rules[FirstMatch(BashCommand(hook.tool_input), rules)],
            "reason", "matched security policy")

\* C11: a Bash command that matches no blocked rule is asked about when it
\* matches a rule of the confirm bucket, with the reason of the first rule of
\* the list that matches, and is allowed otherwise.
C11_ConfirmOrAllow ==
    (BashCall /\ ~CommandBlocked) =>
        IF CommandConfirm
        THEN /\ Verdict("ask")
             /\ hook.out[1].reason = <<"High-risk command", FirstConfirmReason>>
        ELSE Verdict("allow")

\* the path of the call is in the confirmWrite bucket and in no other bucket
ConfirmWriteOnly ==
    /\ ConfirmWritePath
    /\ ~ZeroAccessPath /\ ~RequireSuccessPath /\ ~RequireConfirmPath

\* C12: on a path in the confirmWrite bucket and in no other bucket, Read is
\* allowed; Write and Edit are asked about unless a run with overall exit
\* code 0 or 1 is on record, fresh for this diff, and are allowed with it.
C12_ConfirmWriteOnlyWrites ==
    (FileCall /\ ConfirmWriteOnly) =>
        IF hook.tool_name \in {"Write", "Edit"} /\ ~RanRecently
        THEN Verdict("ask")
        ELSE Verdict("allow")

\* C12 witness: without any record, a Read of a confirmWrite path is allowed.
C12_Witness ==
    /\ FileCall /\ ConfirmWriteOnly /\ hook.tool_name = "Read"
    /\ ~RecordExists
    /\ Verdict("allow")

\* an executor run has just ended
RunEnded == run.pc = "exited"

\* the ordered list of profiles the run was asked to go through
RunProfiles ==
    IF run.arg.auto
    THEN _select_profiles(run.pfile.json, ExecutorDiffFiles(repo))
    ELSE run.arg.list

\* the runner exited with code 2 for the i-th profile the run started
ExitedTwo(i) == run.results[run.executed[i]] = 2

\* C13: when a profile of a run exits with code 2, the profiles executed are
\* those of the list up to and including that profile and no later one, the
\* exit status of the run is 2 whatever the earlier profiles returned, and
\* the record the run writes has exit_code 2 and status TOOLING_ERROR.
C13_ToolingErrorStopsRun ==
    (RunEnded /\ \E i \in 1..Len(run.executed) : ExitedTwo(i)) =>
        LET n == Len(run.executed)
        IN  /\ run.executed = SubSeq(RunProfiles, 1, n)
            /\ ExitedTwo(n)
            /\ \A i \in 1..(n - 1) : ~ExitedTwo(i)
            /\ run.rc = 2
            /\ run.wrote =>
                   /\ stateFile.json.exit_code = 2
                   /\ stateFile.json.status = "TOOLING_ERROR"
                   /\ stateFile.json.profile_exit_codes = run.results

\* C13 witness: the first of two profiles exits 2; the second is not started
\* and the record says TOOLING_ERROR.
C13_Witness ==
    /\ RunEnded /\ Len(RunProfiles) = 2
    /\ run.executed = <<RunProfiles[1]>> /\ ExitedTwo(1)
    /\ run.rc = 2 /\ run.wrote
    /\ stateFile.json.status = "TOOLING_ERROR"

\* what the run found missing
ProfilesConfigAbsent == ~run.pfile.exists
RunnerTemplateUnset ==
    ~TruthyStr(Get(Get(run.pfile.json, "runner", EmptyDict), "command_template", ""))
RunnerFileMissing == ~run.runnerExists

\* C14 (as claimed): a run that finds the profiles configuration absent, the
\* runner command template unset or the runner file missing ends with exit
\* status 2 and starts the runner for no profile.
C14_MissingToolingExitsTwo ==
    (RunEnded /\ (ProfilesConfigAbsent \/ RunnerTemplateUnset \/ RunnerFileMissing)) =>
        /\ run.rc = 2
        /\ run.executed = <<>>

\* this step is a call of the Stop hook
StopCalled == stop.pc = "idle" /\ stop'.pc = "done"

\* the record the Stop hook finds has the fingerprint of the current diff
StoredForThisDiff ==
    /\ RecordExists
    /\ stateFile.json.diff_fingerprint = StopFingerprint(StopDiffFiles(repo))

\* the Stop hook is enabled, autorun is on and the diff selects profiles
AutorunReady ==
    /\ ~stop'.active /\ stop'.enabled /\ stop'.autorun
    /\ StopSelectProfiles(StopLoadProfilesConfig(stop'.pfile, NoProfileOverrides),
                          StopDiffFiles(repo)) # <<>>

\* C15 (as claimed): a call of the Stop hook starts the executor only when
\* its previous launch for this unchanged diff is at least the debounce
\* interval old; it does not start it when the stored record has the current
\* fingerprint and is younger than the interval, and starts it when that record
\* is exactly as old as the interval, autorun is on and profiles are selected.
C15_Debounce ==
    [][StopCalled =>
         /\ (stop'.launched /\ lastLaunch # NoLaunch) =>
                now - lastLaunch.at >= stop'.debounce_s
         /\ (StoredForThisDiff /\ Age < stop'.debounce_s) => ~stop'.launched
         /\ (StoredForThisDiff /\ Age = stop'.debounce_s /\ AutorunReady) =>
                stop'.launched]_vars

\* the state file is missing, or holds no parsable JSON
StateMissing == ~stateFile.exists
StateCorrupt == stateFile.exists /\ ~stateFile.ok

SinkFailed == Responded /\ hook.written # hook.log

\* the output of the same call with the audit sink working, and failing
OutWithSink(sinkOk) ==
    main(hook.enabled, hook.cfg, hook.tool_name, hook.tool_input,
         repo, stateFile, now, sinkOk).out

\* C17: a call ends with one verdict whether the audit sink writes the event
\* or fails, and the verdict is the same in both cases: the output of a call
\* in which the sink failed is that of the same call with the sink working,
\* and the other way round.
C17_AuditFailureKeepsVerdict ==
    Responded =>
        /\ Len(hook.out) = 1
        /\ hook.out = OutWithSink(SinkFailed)

\* C17 witness: the audit sink fails on a call that is denied.
C17_Witness ==
    /\ SinkFailed /\ hook.written = <<>> /\ Len(hook.log) = 1
    /\ Verdict("deny")

\* the orders in which the paths of a list can be given
Orders(S) ==
    { [i \in 1..Len(S) |-> S[f[i]]] :
        f \in { g \in [1..Len(S) -> 1..Len(S)] :
                  \A a, b \in 1..Len(S) : g[a] = g[b] => a = b } }

\* the repository with git printing the changed paths in another order
Reordered(P) == [repo EXCEPT !.lines = P]

Pick(B, I) ==
    LET F[k \in 0..Len(B)] ==
            IF k = 0 THEN <<>>
            ELSE IF k \in I THEN Append(F[k - 1], B[k]) ELSE F[k - 1]
    IN  F[Len(B)]

\* the members of a list
Members(l) == { l[i] : i \in 1..Len(l) }

\* the profile configurations that can be installed
ProfileConfigs ==
    { _load_profiles_config(pfile, NoProfileOverrides) :
        pfile \in { f \in ExecutorConfigs : f.exists } }

\* the profiles of a configuration that are never selected automatically
NeverSelected(cfg) ==
    { name \in DOMAIN Get(cfg, "profiles", EmptyDict) :
        \/ name = "all"
        \/ Get(cfg.profiles[name], "auto_select", TRUE) = FALSE
        \/ Get(cfg.profiles[name], "triggers", <<>>) = <<>> }

\* C19: for every profile configuration, the profiles selected for a part of
\* the change set are among those selected for the whole change set, in the
\* executor and in the Stop hook; "all", profiles with auto_select false and
\* profiles without triggers are selected for neither. (Stated for the states
\* between calls: the repository changes in no other state.)
C19_SelectionMonotonic ==
    Quiet =>
      \A cfg \in ProfileConfigs :
        LET B == ExecutorDiffFiles(repo)
        IN  /\ \A I \in SUBSET (1..Len(B)) :
                  /\ Members(_select_profiles(cfg, Pick(B, I)))
                        \subseteq Members(_select_profiles(cfg, B))
                  /\ Members(StopSelectProfiles(cfg, Pick(B, I)))
                        \subseteq Members(StopSelectProfiles(cfg, B))
            /\ Members(_select_profiles(cfg, B)) \cap NeverSelected(cfg) = {}
            /\ Members(StopSelectProfiles(cfg, B)) \cap NeverSelected(cfg) = {}

\* C19 witness: an automatic run over two changed paths has run the two
\* profiles they trigger, one of which the first path alone does not select,
\* and none of "all", "manual" and "docs".
C19_Witness ==
    /\ RunEnded /\ run.arg.auto /\ Len(ExecutorDiffFiles(repo)) = 2
    /\ Members(run.executed) = {DesignatedProfile, "types"}
    /\ Len(_select_profiles(run.pfile.json, <<ExecutorDiffFiles(repo)[1]>>)) = 1
    /\ NeverSelected(run.pfile.json) = {"all", "manual", "docs"}

\* the record has a profile other than the designated one that failed
OtherProfileFailed ==
    \E name \in DOMAIN stateFile.json.profile_exit_codes :
        /\ name # DesignatedProfile
        /\ stateFile.json.profile_exit_codes[name] # 0

\* C20: with a record that is fresh for this diff, in which the designated
\* profile exited 0 and another profile failed (overall exit code 1), a file
\* action on a require-success path outside zeroAccess is not denied: it is
\* allowed.
C20_OnlyDesignatedProfileGates ==
    (/\ FileCall /\ RequireSuccessPath /\ ~ZeroAccessPath
     /\ RecordExists /\ FingerprintMatches /\ Age <= Window
     /\ DesignatedPassed /\ OtherProfileFailed
     /\ stateFile.json.exit_code = 1) =>
        /\ ~Verdict("deny")
        /\ Verdict("allow")

\* C20 witness: an Edit of a path in the require-success and require-confirm
\* buckets is allowed on a fresh record with overall exit code 1 in which
\* only the other profile failed.
C20_Witness ==
    /\ FileCall /\ RequireSuccessPath /\ RequireConfirmPath /\ ~ZeroAccessPath
    /\ hook.tool_name = "Edit"
    /\ RecordExists /\ FingerprintMatches /\ Age <= Window
    /\ DesignatedPassed /\ OtherProfileFailed
    /\ stateFile.json.exit_code = 1
    /\ Verdict("allow")

\* the exit code the runner returned for the i-th profile the run started
ExitCodeOf(i) == run.results[run.executed[i]]

\* the exit status the codes of the executed profiles call for
ExpectedExit ==
    IF ExitCodeOf(Len(run.executed)) = 2 THEN 2
    ELSE IF \E i \in 1..Len(run.executed) : ExitCodeOf(i) # 0 THEN 1
    ELSE 0

\* C21: in a run that starts the runner, the executed profiles are a prefix
\* of the profile list and the run stops short of the whole list only after
\* a profile that exited 2 (a profile failing with another code does not
\* stop it); the exit status is 2 iff the last executed profile exited 2,
\* else 1 iff some executed profile exited non-zero, else 0; the record the
\* run writes carries that exit_code, the status PASS, FAIL or TOOLING_ERROR
\* for 0, 1 or 2, and exit codes for exactly the executed profiles.
C21_FailureDoesNotStopRun ==
    (RunEnded /\ run.executed # <<>>) =>
        LET n == Len(run.executed)
        IN  /\ run.executed = SubSeq(RunProfiles, 1, n)
            /\ n < Len(RunProfiles) => ExitCodeOf(n) = 2
            /\ run.rc = ExpectedExit
            /\ run.wrote =>
                   /\ stateFile.json.exit_code = ExpectedExit
                   /\ stateFile.json.status =
                          (CASE ExpectedExit = 0 -> "PASS"
                             [] ExpectedExit = 1 -> "FAIL"
                             [] ExpectedExit = 2 -> "TOOLING_ERROR")
                   /\ DOMAIN stateFile.json.profile_exit_codes =
                          { run.executed[i] : i \in 1..n }
                   /\ \A i \in 1..n :
                          stateFile.json.profile_exit_codes[run.executed[i]] = ExitCodeOf(i)
                   /\ stateFile.json.profiles = RunProfiles

\* C21 witness: the first of two profiles fails with code 1, the second is
\* still executed and passes; the run exits 1 and the record says FAIL.
C21_Witness ==
    /\ RunEnded /\ Len(RunProfiles) = 2 /\ Len(run.executed) = 2
    /\ ExitCodeOf(1) = 1 /\ ExitCodeOf(2) = 0
    /\ run.rc = 1 /\ run.wrote
    /\ stateFile.json.status = "FAIL"

\* a Write or Edit of a path in the require-confirm bucket and in the
\* confirmWrite bucket, without fresh evidence, that no earlier step denies
BothConfirmBuckets ==
    /\ FileCall /\ hook.tool_name \in {"Write", "Edit"}
    /\ ChainStep = "no_fresh_evidence"
    /\ ConfirmWritePath

\* C22 (as claimed): such a call produces two asks and two audit events, one
\* per bucket.
C22_BothChecksFire ==
    BothConfirmBuckets =>
        /\ Len(hook.out) = 2
        /\ hook.out[1].decision = "ask" /\ hook.out[2].decision = "ask"
        /\ Len(hook.log) = 2
        /\ hook.log[1].reason = "no_fresh_evidence"
        /\ hook.log[2].reason = "confirmWrite"

\* C22 (amended): such a call produces one ask and one audit event, those of
\* the require-confirm check; the process ends there and the confirmWrite
\* check is not reached.
C22_FirstCheckAsksOnce ==
    BothConfirmBuckets =>
        /\ Verdict("ask")
        /\ Len(hook.log) = 1
        /\ hook.log[1].decision = "ask"
        /\ hook.log[1].reason = "no_fresh_evidence"
        /\ hook.order = <<"audit", "verdict">>

\* C22 witness: a Write of a path in both buckets, with no record at all, is
\* asked once.
C22_Witness ==
    /\ BothConfirmBuckets /\ hook.tool_name = "Write" /\ ~RecordExists
    /\ Verdict("ask")
    /\ Len(hook.log) = 1

\* the record a run builds from its own arguments and results (lines 268-278)
RunRecord ==
    [timestamp          |-> now,
     diff_fingerprint   |-> _fingerprint(ExecutorDiffFiles(repo)),
     profiles           |-> RunProfiles,
     exit_code          |-> run.rc,
     profile_exit_codes |-> run.results,
     status             |-> Status(run.rc)]

\* the record the run found held a pass of the designated profile
PassedBefore ==
    /\ TruthyState(_read_state(run.replaced))
    /\ AuthnGatewayRc(Get(run.replaced.json, "profile_exit_codes", EmptyDict)) = 0

\* the file actions on a path of the require-success bucket, with the pack
\* installed
RequireSuccessCalls ==
    { c \in [cfg : Configs, tool_name : FileTools, tool_input : FileInputs] :
        LET lc == _load_config(c.cfg)
        IN  /\ TruthyDict(lc.profiles) /\ TruthyDict(lc.policy)
            /\ _match_any(FilePath(c.tool_input),
                          _policy_lists(lc.policy, "evidence",
                                        "require_success_for_paths")) }

\* the verdict an arbitration of the call would give in this state
VerdictNow(c) ==
    main(TRUE, c.cfg, c.tool_name, c.tool_input, repo, stateFile, now, TRUE).out

\* what holds when a run has ended
RunReplacesRecord ==
    RunEnded =>
        /\ ~run.wrote => stateFile = run.replaced
        /\ run.wrote =>
               /\ stateFile = JsonFile(RunRecord)
               /\ DesignatedProfile \notin DOMAIN run.results =>
                      \A c \in RequireSuccessCalls :
                          /\ Len(VerdictNow(c)) = 1
                          /\ VerdictNow(c)[1].decision = "deny"

\* C23: a run that writes state leaves exactly the record built from its
\* own arguments and results, with nothing of the record it found (a run
\* that does not write leaves the file as it found it); after a run that did
\* not execute the designated profile has written, every file action on a
\* require-success path is denied, whatever the replaced record held; and an
\* arbitration call never changes the state file.
C23_RecordReplacedWholesale ==
    /\ []RunReplacesRecord
    /\ [][hook' # hook => stateFile' = stateFile]_vars

\* C23 witness: a run of another profile alone has overwritten a record that
\* held a pass of the designated profile, for the same diff and at the same
\* second; a Write of a require-success path is denied.
C23_Witness ==
    /\ RunEnded /\ run.wrote /\ PassedBefore
    /\ run.replaced.json.diff_fingerprint = stateFile.json.diff_fingerprint
    /\ run.replaced.json.timestamp = now
    /\ run.executed = <<"types">> /\ run.rc = 0
    /\ RequireSuccessCalls # {}
    /\ \A c \in RequireSuccessCalls : VerdictNow(c)[1].decision = "deny"

\* the fingerprint of the files that differ from the base, whether or not
\* the hook's query of them works
ActualFingerprint == _fingerprint(Sorted(StripLines(repo.lines)))

\* the record changed the verdict of the call: the hook accepted it as evidence
RecordAccepted ==
    /\ FileCall /\ RecordExists
    /\ hook.out # main(hook.enabled, hook.cfg, hook.tool_name, hook.tool_input,
                       repo, AbsentFile, now, TRUE).out

\* C24 (as claimed): a record the hook accepts as evidence was recorded for
\* the changed files the repository has at the time of the call, also when
\* the hook's query of the changed files fails.
C24_EvidenceForActualDiff ==
    RecordAccepted => stateFile.json.diff_fingerprint = ActualFingerprint

\* an arbitration call was made while a run was writing the state file
Racing == Responded /\ Writing

\* the verdict of the call had the state file been f
OutWithState(f) ==
    main(hook.enabled, hook.cfg, hook.tool_name, hook.tool_input, repo, f, now, TRUE).out

\* C25: what an arbitration reads while a run is overwriting the state file
\* is no record at all or one complete record, the replaced one or the new
\* one; its verdict is the verdict for an absent record or for one of the two
\* complete records, and when the text in the file is cut short it is the
\* verdict for an absent record.
C25_RacingReadAbsentOrComplete ==
    Racing =>
        /\ _read_state(stateFile) \in
               {NoState, _read_state(run.replaced), _read_state(JsonFile(PendingRecord))}
        /\ hook.out \in {OutWithState(AbsentFile), OutWithState(run.replaced),
                          OutWithState(JsonFile(PendingRecord))}
        /\ stateFile # JsonFile(PendingRecord) => hook.out = OutWithState(AbsentFile)

\* C25 witness: the replaced record and the new record both lift the deny
\* on a require-success path; a Write made while part of the new text is in
\* the file is denied.
C25_Witness ==
    /\ Racing /\ run.pc = "partial"
    /\ hook.tool_name = "Write" /\ RequireSuccessPath
    /\ Verdict("deny")
    /\ OutWithState(run.replaced)[1].decision = "allow"
    /\ OutWithState(JsonFile(PendingRecord))[1].decision = "allow"

\* an arbitration of a file action made after the Stop hook started a run
\* that ended with 0 or 1 and wrote the record, the repository unchanged
\* since and the record within the freshness window
AfterLaunch ==
    /\ FileCall
    /\ lastLaunch.at >= 0 /\ lastLaunch.wrote /\ lastLaunch.rc \in {0, 1}
    /\ now - lastLaunch.at <= MaxAgeSeconds

\* the base reference each of the three resolved
LaunchStopBase ==
    StopBase(lastLaunch.baseEnv, StopLoadProfilesConfig(lastLaunch.pfile, lastLaunch.overrides))
LaunchExecutorBase ==
    ExecutorBase(LaunchStopBase, _load_profiles_config(lastLaunch.pfile, lastLaunch.overrides))
LaunchGuardBase == GuardBase(lastLaunch.baseEnv, lastLaunch.pfile, lastLaunch.overrides)

\* the fingerprint the PreToolUse hook computes
GuardFingerprint == _fingerprint(_git_diff_files(DiffAgainst(repo, LaunchGuardBase)))

\* C26: after the Stop hook started a run that ended with 0 or 1 and wrote
\* the record, the fingerprint the Stop hook computed, the one in the record
\* and the one the PreToolUse hook computes are the same, and the verdict of
\* an arbitration within the freshness window is the one for a record of
\* the current diff.
C26_FingerprintsAgree ==
    AfterLaunch =>
        /\ lastLaunch.fp = stateFile.json.diff_fingerprint
        /\ stateFile.json.diff_fingerprint = GuardFingerprint
        /\ hook.out =
              main(hook.enabled, hook.cfg, hook.tool_name, hook.tool_input,
                   DiffAgainst(repo, LaunchGuardBase),
                   JsonFile([stateFile.json EXCEPT !.diff_fingerprint = GuardFingerprint]),
                   now, TRUE).out

====
